---- MODULE Spec2Model ----
(***************************************************************************)
(* Dialing engine of the Stargate dialing computer (stargate_app.py).      *)
(*                                                                         *)
(* State: the fields of StargateApp that the dialing engine owns, the      *)
(* millisecond clock read by _update, and the audio intents of the last    *)
(* handler.  One action per handler: _add_symbol, _remove_symbol,          *)
(* _clear_symbols, _load_preset, _start_dial, _close_gate, _update.        *)
(*                                                                         *)
(* Angles are integers in the model: one model unit is 1/26 degree, the    *)
(* coarsest unit in which the symbol arc 360/39 and every frame step       *)
(* speed * dt of the modelled frame times are integers.  Where the code    *)
(* compares or reduces doubles (the target of a spin leg, the bounds of    *)
(* the wheel sectors) a double is an exact value with the rounding error   *)
(* it carries, and every operation rounds to the nearest double as IEEE    *)
(* 754 does.  The positions of the ring between the ends of a leg are      *)
(* exact.                                                                  *)
(***************************************************************************)
EXTENDS Integers, Sequences, FiniteSets, TLC

----------------------------------------------------------------------------
(* Program constants *)

SYMBOL_COUNT == 39

MIN_ADDRESS_LENGTH == 7

MAX_ADDRESS_LENGTH == 9

\* model units per degree: 360/39 = 120/13 degrees, and half degrees for speed * dt
UnitsPerDeg == 2 * (SYMBOL_COUNT \div 3)

Deg(d) == d * UnitsPerDeg

FULL_TURN == Deg(360)

SYMBOL_ARC_DEG == FULL_TURN \div SYMBOL_COUNT

TOP_CHEVRON_ANGLE_DEG == Deg(-90)

\* degrees per second
DIAL_SPIN_BASE_SPEED == 220

DIAL_SPIN_SPEED_STEP == 14

DIAL_SPIN_SPEED_CAP == 110

DIAL_MIN_TRAVEL_DEG == Deg(360)

CHEVRON_ACTUATE_MS == 380

OPEN_DURATION_MS == 1100

KNOWN_ADDRESSES ==
    [ Abydos |-> <<26, 6, 14, 31, 11, 29, 1>>,
      Chulak |-> <<8, 1, 22, 14, 36, 19, 4>>,
      Dakara |-> <<17, 28, 4, 35, 9, 21, 2>>,
      Earth  |-> <<1, 11, 2, 19, 21, 24, 35>> ]

----------------------------------------------------------------------------
(* Bounds of the model *)

\* shortest frame time, in milliseconds: a quarter of a second, the finest
\* frame time at which speed * dt is a whole number of model units for every
\* step speed
FrameMs == 1000 \div 4

\* a frame lasts FrameMs * k milliseconds, k in 1..MaxFrameMult
MaxFrameMult == 2

\* no episode is started after this clock reading
MaxStartTime == 3000

DtChoices == { FrameMs * k : k \in 1..MaxFrameMult }

MaxDt == FrameMs * MaxFrameMult

\* symbol indices offered to _add_symbol: one valid symbol, one below the
\* range and one past its end
SymbolChoices == {-1, 1, SYMBOL_COUNT}

\* preset names offered to _load_preset
PresetChoices == {"Abydos"}

\* time that covers any spin leg: less than two turns at no less than the base speed
SpinBudgetMs == ((2 * 360 * 1000) \div DIAL_SPIN_BASE_SPEED) + 1

\* time that covers a whole episode of MAX_ADDRESS_LENGTH steps and the opening
EpisodeBudgetMs ==
    MAX_ADDRESS_LENGTH * (SpinBudgetMs + CHEVRON_ACTUATE_MS + 3 * MaxDt)
        + OPEN_DURATION_MS + 2 * MaxDt

MaxClock == MaxStartTime + EpisodeBudgetMs

\* outside an episode, frames are followed for this long after the latest
\* moment the engine still holds a timestamp for
MaxDwell == 1500

----------------------------------------------------------------------------
(* State *)

VARIABLES
    state,                      \* "IDLE", "DIALING", "OPENING", "CONNECTED"
    entered_symbols,
    current_address,
    locked_count,
    ring_angle,
    ring_target_angle,
    ring_target_err,            \* rounding error of ring_target_angle, in 2^-51/13 degree
    ring_speed,
    dial_phase,                 \* "IDLE", "SPINNING", "CHEVRON_ACTUATE"
    dial_step_index,
    chevron_phase_started_at,
    top_chevron_anim_until,
    open_finish_at,
    connected_since,
    status,
    cues,                       \* audio calls of the last handler, in call order
    loop_active,                \* the audio loop channel is playing
    ticks,                      \* pygame.time.get_ticks(), milliseconds
    dhd,                        \* the radii of the DHDWheel
    pointer,                    \* angle and distance of the last pointer motion
    hit,                        \* what hit_test returned for it
    hovered_symbol

vars ==
    << state, entered_symbols, current_address, locked_count, ring_angle,
       ring_target_angle, ring_target_err, ring_speed, dial_phase, dial_step_index,
       chevron_phase_started_at, top_chevron_anim_until, open_finish_at,
       connected_since, status, cues, loop_active, ticks,
       dhd, pointer, hit, hovered_symbol >>

wheel_vars == << dhd, pointer, hit, hovered_symbol >>

engine_vars ==
    << state, entered_symbols, current_address, locked_count, ring_angle,
       ring_target_angle, ring_target_err, ring_speed, dial_phase, dial_step_index,
       chevron_phase_started_at, top_chevron_anim_until, open_finish_at,
       connected_since, status, cues, loop_active, ticks >>

address_vars == << entered_symbols, current_address >>

ring_vars == << ring_angle, ring_target_angle, ring_target_err, ring_speed >>

dial_vars == << locked_count, dial_phase, dial_step_index >>

timer_vars ==
    << chevron_phase_started_at, top_chevron_anim_until, open_finish_at,
       connected_since >>

\* a status line: the message and the values formatted into it
StatusLine(msg, a, b) == [msg |-> msg, a |-> a, b |-> b, name |-> ""]

Abs(x) == IF x < 0 THEN -x ELSE x

----------------------------------------------------------------------------
(* Radial geometry: the double-precision angles of the wheel *)

(***************************************************************************)
(* The sector bounds are doubles near multiples of a third of a degree.    *)
(* Such a double is the pair (t, e) of value t/3 + e * 2^-49 / 3 degrees:  *)
(* t counts thirds of a degree and e the rounding error in units that make *)
(* one ulp of a double in [2^m, 2^(m+1)) the integer 3 * 2^(m-3).  Every    *)
(* operation below is the IEEE operation, rounded to nearest, ties to      *)
(* even, for operands whose t lies in [24, 1536), or is 0.                 *)
(***************************************************************************)
Dbl(t, e) == [t |-> t, e |-> e]

\* the double of a whole number of degrees
WholeDeg(d) == Dbl(3 * d, 0)

\* the exponent m of the binade [2^m, 2^(m+1)) that holds t/3
Binade(t) == CHOOSE m \in 3..8 : 3 * 2^m <= t /\ t < 3 * 2^(m + 1)

\* one unit in the last place of a double near t/3
Ulp(t) == 3 * 2^(Binade(t) - 3)

\* 2^k modulo 3
PowMod3(k) == IF k % 2 = 0 THEN 1 ELSE 2

\* the double nearest to the real number t/3 + e * 2^-49 / 3
RoundDbl(t, e) ==
    IF t = 0
    THEN Dbl(0, e)
    ELSE LET m == Binade(t)
             U == Ulp(t)
             \* the real number modulo two ulps
             R2 == (2^(m - 2) * ((t * PowMod3(51 - m)) % 3) + e) % (2 * U)
             r == R2 % U
             odd == R2 \div U
         IN  IF 2 * r < U \/ (2 * r = U /\ odd = 0)
             THEN Dbl(t, e - r)
             ELSE Dbl(t, e - r + U)

\* 360.0 / count
DblTurnOver(count) == RoundDbl((3 * 360) \div count, 0)

\* i * x for an integer i
DblTimes(i, x) == RoundDbl(i * x.t, i * x.e)

\* x + y
DblPlus(x, y) == RoundDbl(x.t + y.t, x.e + y.e)

\* x * 0.5, exact
DblHalf(x) == Dbl(x.t \div 2, x.e \div 2)

\* x % 360.0 for 0 <= x < 720, exact
DblMod360(x) ==
    IF x.t > 3 * 360 \/ (x.t = 3 * 360 /\ x.e >= 0)
    THEN Dbl(x.t - 3 * 360, x.e)
    ELSE x

DblLess(x, y) == x.t < y.t \/ (x.t = y.t /\ x.e < y.e)

DblLessEq(x, y) == x = y \/ DblLess(x, y)

\* _angle_in_span that takes the end bound into the span
AngleInSpan_ClosedEnd(angle, start, end) ==
    IF DblLessEq(start, end)
    THEN DblLessEq(start, angle) /\ DblLessEq(angle, end)
    ELSE DblLessEq(start, angle) \/ DblLessEq(angle, end)

\* _angle_in_span
AngleInSpan(angle, start, end) ==
    IF DblLessEq(start, end)
    THEN DblLessEq(start, angle) /\ DblLess(angle, end)
    ELSE DblLessEq(start, angle) \/ DblLess(angle, end)

----------------------------------------------------------------------------
(* Wheel layout: DHDWheel *)

OUTER_COUNT == 27

INNER_COUNT == 12

\* the smallest outer radius of the wheel
MIN_OUTER_RADIUS == 170

\* the outer radius computed by _rebuild_layout for WINDOW_SIZE (1500, 920):
\* int(min(525 * 0.40, 884 * 0.29))
STARTUP_RADIUS == 210

\* hit_test and hovered_symbol: no symbol
None == -1

\* 2^q modulo 100, for q >= 20: 2^20 = 76 modulo 100, and 76 * 76 = 76
Pow2Mod100(q) == (76 * 2^(q % 20)) % 100

\* the bits after the binary point of the double nearest percent / 100
RatioBits(percent) == IF percent >= 50 THEN 53 ELSE 54

\* what the double nearest percent / 100 is above percent / 100, in units of
\* 2^-q / 100 with q = RatioBits(percent)
RatioError(percent) ==
    LET r == (percent * Pow2Mod100(RatioBits(percent))) % 100
    IN  IF r < 50 THEN -r ELSE 100 - r

\* doubles between 2^b and 2^(b+1) lie 2^(b-52) apart
IntBinade(K) == CHOOSE b \in 0..20 : 2^b < K /\ K <= 2^(b + 1)

\* int(radius * ratio) with ratio the double nearest percent / 100.  The
\* product is rounded to a double; its integer part is that of the exact
\* product K = radius * percent / 100 unless K is a whole number, the ratio
\* is below percent / 100 and the product rounds to a double below K.
Scaled(radius, percent) ==
    LET K == (radius * percent) \div 100
        below == -RatioError(percent)
    IN  IF /\ (radius * percent) % 100 = 0
           /\ below > 0
           /\ radius * below > 100 * 2^(IntBinade(K) + RatioBits(percent) - 53)
        THEN K - 1
        ELSE K

DHDSector(index, start_angle, end_angle, inner_radius, outer_radius) ==
    [index |-> index, start_angle |-> start_angle, end_angle |-> end_angle,
     inner_radius |-> inner_radius, outer_radius |-> outer_radius]

\* the start angle of sector i (from 0) of a ring of count sectors; the outer
\* ring has offset 0.0, and x + 0.0 is x
SectorStart(i, count, offset) ==
    DblMod360(DblPlus(offset, DblTimes(i, DblTurnOver(count))))

SectorEnd(i, count, offset) ==
    DblMod360(DblPlus(SectorStart(i, count, offset), DblTurnOver(count)))

\* the spans of the outer ring, which do not depend on the radius: entry k
\* is the span of the sector of loop index k - 1
OuterSpans ==
    [k \in 1..OUTER_COUNT |->
        << SectorStart(k - 1, OUTER_COUNT, WholeDeg(0)),
           SectorEnd(k - 1, OUTER_COUNT, WholeDeg(0)) >>] \o << >>

\* the spans of the inner ring: inner_offset is half a step
InnerSpans ==
    [k \in 1..INNER_COUNT |->
        << SectorStart(k - 1, INNER_COUNT, DblHalf(DblTurnOver(INNER_COUNT))),
           SectorEnd(k - 1, INNER_COUNT, DblHalf(DblTurnOver(INNER_COUNT))) >>] \o << >>

\* _build_sectors with inner-ring indices that start one too low
BuildSectors_InnerFromLast(w) ==
    [k \in 1..OUTER_COUNT |->
        DHDSector(k - 1, OuterSpans[k][1], OuterSpans[k][2],
                  w.outer_ring_inner, w.outer_radius)]
    \o
    [k \in 1..INNER_COUNT |->
        DHDSector(OUTER_COUNT + k - 2, InnerSpans[k][1], InnerSpans[k][2],
                  w.inner_ring_inner, w.inner_ring_outer)]

\* _build_sectors for the radii w: idx counts the sectors appended so far
BuildSectors(w) ==
    [k \in 1..OUTER_COUNT |->
        DHDSector(k - 1, OuterSpans[k][1], OuterSpans[k][2],
                  w.outer_ring_inner, w.outer_radius)]
    \o
    [k \in 1..INNER_COUNT |->
        DHDSector(OUTER_COUNT + k - 1, InnerSpans[k][1], InnerSpans[k][2],
                  w.inner_ring_inner, w.inner_ring_outer)]

\* SetGeometry whose inner ring reaches the outer ring
SetGeometry_RingsTouch(outer_radius) ==
    LET r == IF outer_radius < MIN_OUTER_RADIUS THEN MIN_OUTER_RADIUS ELSE outer_radius
    IN  [outer_radius |-> r,
         outer_ring_inner |-> Scaled(r, 69),
         inner_ring_outer |-> Scaled(r, 69),
         inner_ring_inner |-> Scaled(r, 43),
         center_button_radius |-> Scaled(r, 30)]

\* set_geometry: the radii derived from the requested outer radius; the
\* sector table of the wheel is BuildSectors of these radii
SetGeometry(outer_radius) ==
    LET r == IF outer_radius < MIN_OUTER_RADIUS THEN MIN_OUTER_RADIUS ELSE outer_radius
    IN  [outer_radius |-> r,
         outer_ring_inner |-> Scaled(r, 69),
         inner_ring_outer |-> Scaled(r, 64),
         inner_ring_inner |-> Scaled(r, 43),
         center_button_radius |-> Scaled(r, 30)]

\* the sector matches the angle and the distance
SectorMatches(sector, angle, dist) ==
    /\ sector.inner_radius <= dist
    /\ dist <= sector.outer_radius
    /\ AngleInSpan(angle, sector.start_angle, sector.end_angle)

HitResult(kind, index) == [kind |-> kind, index |-> index]

\* the sectors of the table that match, in table order
Matching(sectors, angle, dist) ==
    SelectSeq(sectors, LAMBDA sector : SectorMatches(sector, angle, dist))

\* hit_test that leaves the rim of the center button out of the center zone
HitTest_OpenCenter(w, angle, dist) ==
    IF dist < w.center_button_radius
    THEN HitResult("center", None)
    ELSE LET found == Matching(BuildSectors(w), angle, dist)
         IN  IF found = << >>
             THEN HitResult("none", None)
             ELSE HitResult("symbol", found[1].index)

\* hit_test, with the pointer given by its angle and distance from the center
HitTest(w, angle, dist) ==
    IF dist <= w.center_button_radius
    THEN HitResult("center", None)
    ELSE LET found == Matching(BuildSectors(w), angle, dist)
         IN  IF found = << >>
             THEN HitResult("none", None)
             ELSE HitResult("symbol", found[1].index)

----------------------------------------------------------------------------
(* StargateApp.__init__ *)

Init ==
    /\ state = "IDLE"
    /\ entered_symbols = << >>
    /\ current_address = << >>
    /\ locked_count = 0
    /\ ring_angle = 0
    /\ ring_target_angle = 0
    /\ ring_target_err = 0
    /\ ring_speed = 0
    /\ dial_phase = "IDLE"
    /\ dial_step_index = 0
    /\ chevron_phase_started_at = 0
    /\ top_chevron_anim_until = 0
    /\ open_finish_at = 0
    /\ connected_since = 0
    /\ status = StatusLine("Idle. Enter 7-9 symbols and press the DHD center.", 0, 0)
    /\ cues = << >>
    /\ loop_active = FALSE
    /\ ticks = 0
    /\ dhd = SetGeometry(STARTUP_RADIUS)
    /\ pointer = [angle |-> WholeDeg(0), dist |-> 0]
    /\ hit = HitResult("none", None)
    /\ hovered_symbol = None

----------------------------------------------------------------------------
(* Address model *)

\* AddressFull with the bound off by one
AddressFull_OffByOne == Len(entered_symbols) > MAX_ADDRESS_LENGTH

\* _add_symbol: the address already holds the maximum number of symbols
AddressFull == Len(entered_symbols) >= MAX_ADDRESS_LENGTH

\* _add_symbol: idx names no symbol
NoSuchSymbol(idx) == idx < 0 \/ idx >= SYMBOL_COUNT

\* AddSymbol that drops a symbol already entered
AddSymbol_Dedups(idx) ==
    /\ UNCHANGED << state, current_address, ring_vars, dial_vars, timer_vars,
                    loop_active, ticks >>
    /\ IF state # "IDLE"
       THEN /\ cues' = << "error" >>
            /\ UNCHANGED << entered_symbols, status >>
       ELSE IF AddressFull
       THEN /\ status' = StatusLine("Address full (max 9 symbols).", 0, 0)
            /\ cues' = << "error" >>
            /\ UNCHANGED entered_symbols
       ELSE IF NoSuchSymbol(idx) \/ (\E i \in DOMAIN entered_symbols : entered_symbols[i] = idx)
       THEN /\ cues' = << >>
            /\ UNCHANGED << entered_symbols, status >>
       ELSE /\ entered_symbols' = Append(entered_symbols, idx)
            /\ cues' = << "press" >>
            /\ status' = StatusLine("Selected {n} symbols.", Len(entered_symbols) + 1, 0)

AddSymbol(idx) ==
    /\ UNCHANGED << state, current_address, ring_vars, dial_vars, timer_vars,
                    loop_active, ticks >>
    /\ IF state # "IDLE"
       THEN /\ cues' = << "error" >>
            /\ UNCHANGED << entered_symbols, status >>
       ELSE IF AddressFull
       THEN /\ status' = StatusLine("Address full (max 9 symbols).", 0, 0)
            /\ cues' = << "error" >>
            /\ UNCHANGED entered_symbols
       ELSE IF NoSuchSymbol(idx)
       THEN /\ cues' = << >>
            /\ UNCHANGED << entered_symbols, status >>
       ELSE /\ entered_symbols' = Append(entered_symbols, idx)
            /\ cues' = << "press" >>
            /\ status' = StatusLine("Selected {n} symbols.", Len(entered_symbols) + 1, 0)

RemoveSymbol ==
    /\ UNCHANGED << state, current_address, ring_vars, dial_vars, timer_vars,
                    loop_active, ticks >>
    /\ IF state # "IDLE"
       THEN /\ cues' = << >>
            /\ UNCHANGED << entered_symbols, status >>
       ELSE IF entered_symbols # << >>
       THEN /\ entered_symbols' = SubSeq(entered_symbols, 1, Len(entered_symbols) - 1)
            /\ cues' = << "press" >>
            /\ status' = StatusLine("Selected {n} symbols.", Len(entered_symbols) - 1, 0)
       ELSE /\ cues' = << >>
            /\ UNCHANGED << entered_symbols, status >>

\* ClearSymbols without the test of the state
ClearSymbols_NoGate ==
    /\ UNCHANGED << state, current_address, ring_vars, dial_vars, timer_vars,
                    loop_active, ticks >>
    /\ entered_symbols' = << >>
    /\ cues' = << "press" >>
    /\ status' = StatusLine("Address cleared.", 0, 0)

ClearSymbols ==
    /\ UNCHANGED << state, current_address, ring_vars, dial_vars, timer_vars,
                    loop_active, ticks >>
    /\ IF state # "IDLE"
       THEN /\ cues' = << >>
            /\ UNCHANGED << entered_symbols, status >>
       ELSE /\ entered_symbols' = << >>
            /\ cues' = << "press" >>
            /\ status' = StatusLine("Address cleared.", 0, 0)

\* LoadPreset that extends the entered address instead of replacing it
LoadPreset_Extends(name) ==
    /\ UNCHANGED << state, current_address, ring_vars, dial_vars, timer_vars,
                    loop_active, ticks >>
    /\ IF state # "IDLE"
       THEN /\ cues' = << "error" >>
            /\ UNCHANGED << entered_symbols, status >>
       ELSE /\ entered_symbols' = entered_symbols \o KNOWN_ADDRESSES[name]
            /\ cues' = << "press" >>
            /\ status' = [StatusLine("Loaded preset: {name}.", 0, 0) EXCEPT !.name = name]

LoadPreset(name) ==
    /\ UNCHANGED << state, current_address, ring_vars, dial_vars, timer_vars,
                    loop_active, ticks >>
    /\ IF state # "IDLE"
       THEN /\ cues' = << "error" >>
            /\ UNCHANGED << entered_symbols, status >>
       ELSE /\ entered_symbols' = KNOWN_ADDRESSES[name]
            /\ cues' = << "press" >>
            /\ status' = [StatusLine("Loaded preset: {name}.", 0, 0) EXCEPT !.name = name]

----------------------------------------------------------------------------
(* Dialing engine: targeting *)

\* The angles of the ring are doubles.  A double is written [t, e] and stands
\* for t/26 + e * 2^-51/13 degrees: t is the exact value the computation
\* aims at, in model units, and e the rounding error it carries.  One unit in
\* the last place of a double in [2^m, 2^(m+1)) degrees is 13 * 2^(m-1) times
\* 2^-51/13 degree.
Ang(t, e) == [t |-> t, e |-> e]

\* the element of a singleton: an operator that takes its arguments through
\* one computes each of them once
The(S) == CHOOSE v \in S : TRUE

\* the binade of a value: 2^m <= |t| / 26 < 2^(m + 1)
AngBinade(t) == CHOOSE m \in 1..10 : 26 * 2^m <= Abs(t) /\ Abs(t) < 26 * 2^(m + 1)

Pow2Mod13(k) == (2^(k % 12)) % 13

AngNeg(x) == The({ Ang(-a.t, -a.e) : a \in {x} })

\* round to a multiple of U the value that lies R2 above a multiple of 2 * U:
\* to the nearest, and to the even one of two that are equally near
RoundBy(t, e, U, R2) ==
    The({ IF 2 * r < U \/ (2 * r = U /\ R2 \div U = 0)
          THEN Ang(t, e - r)
          ELSE Ang(t, e - r + U) : r \in {R2 % U} })

\* round a positive value of the binade m
RoundIn(t, e, m) ==
    The({ RoundBy(t, e, 13 * 2^(m - 1), R2)
            : R2 \in {(2^m * ((t * Pow2Mod13(50 - m)) % 13) + e) % (13 * 2^m)} })

\* round a positive value to the nearest double, ties to even
RoundUp(t, e) == The({ RoundIn(t, e, m) : m \in {AngBinade(t)} })

\* the nearest double; a difference of nearby doubles (t = 0) is exact
RoundAng(t, e) ==
    The({ IF a.t = 0 THEN a
          ELSE IF a.t > 0 THEN RoundUp(a.t, a.e)
          ELSE AngNeg(RoundUp(-a.t, -a.e)) : a \in {Ang(t, e)} })

AngPlus(x, y) == The({ RoundAng(a.t + b.t, a.e + b.e) : a \in {x}, b \in {y} })

AngMinus(x, y) == The({ RoundAng(a.t - b.t, a.e - b.e) : a \in {x}, b \in {y} })

AngTimes(i, x) == The({ RoundAng(i * a.t, i * a.e) : a \in {x} })

AngIsNeg(x) == x.t < 0 \/ (x.t = 0 /\ x.e < 0)

\* C fmod(x, 360.0) of a value that is not negative
FmodTurnUp(x) ==
    IF x.t % FULL_TURN = 0
    THEN IF x.e < 0 /\ x.t > 0 THEN Ang(FULL_TURN, x.e) ELSE Ang(0, x.e)
    ELSE Ang(x.t % FULL_TURN, x.e)

\* C fmod(x, 360.0): exact, with the sign of x
FmodTurn(x) ==
    The({ IF AngIsNeg(a) THEN AngNeg(FmodTurnUp(AngNeg(a))) ELSE FmodTurnUp(a)
            : a \in {x} })

\* Python x % 360.0: a negative remainder is moved up by one turn, and rounded
ModTurn(x) ==
    The({ IF AngIsNeg(mod) THEN AngPlus(mod, Ang(FULL_TURN, 0)) ELSE mod
            : mod \in {FmodTurn(x)} })

\* the double SYMBOL_ARC_DEG = 360.0 / SYMBOL_COUNT
SymbolArc == RoundAng(SYMBOL_ARC_DEG, 0)

SymbolAlignmentAngle(symbol_index) ==
    AngMinus(Ang(TOP_CHEVRON_ANGLE_DEG, 0), AngTimes(symbol_index, SymbolArc))

\* StepDirection that spins every step clockwise
StepDirection_AlwaysCW(step) == 1

\* direction of a step: 1 clockwise, -1 counter-clockwise
StepDirection(step) == IF step % 2 = 0 THEN 1 ELSE -1

\* StepTarget that takes the shortest arc in the step's direction
StepTarget_ShortestArc(step, symbol_index, angle) ==
    LET desired_angle == SymbolAlignmentAngle(symbol_index)
    IN  IF StepDirection(step) > 0
        THEN AngPlus(angle, ModTurn(AngMinus(desired_angle, angle)))
        ELSE AngMinus(angle, ModTurn(AngMinus(angle, desired_angle)))

\* StepTarget that aligns the glyph numbered like the step
StepTarget_ByStepIndex(step, symbol_index, angle) ==
    LET desired_angle == SymbolAlignmentAngle(step)
        min_travel == Ang(DIAL_MIN_TRAVEL_DEG, 0)
    IN  IF StepDirection(step) > 0
        THEN AngPlus(angle, AngPlus(ModTurn(AngMinus(desired_angle, angle)), min_travel))
        ELSE AngMinus(angle, AngPlus(ModTurn(AngMinus(angle, desired_angle)), min_travel))

\* the unwrapped destination of the spin leg of `step`, from the ring angle
\* `angle` (a double)
StepTarget(step, symbol_index, angle) ==
    LET desired_angle == SymbolAlignmentAngle(symbol_index)
        min_travel == Ang(DIAL_MIN_TRAVEL_DEG, 0)
    IN  IF StepDirection(step) > 0
        THEN LET cw_delta == ModTurn(AngMinus(desired_angle, angle))
                 travel == AngPlus(cw_delta, min_travel)
             IN  AngPlus(angle, travel)
        ELSE LET ccw_delta == ModTurn(AngMinus(angle, desired_angle))
                 travel == AngPlus(ccw_delta, min_travel)
             IN  AngMinus(angle, travel)

Min(a, b) == IF a <= b THEN a ELSE b

Max(a, b) == IF a >= b THEN a ELSE b

\* StepSpeed that leaves out the base speed
StepSpeed_NoBase(step) == Min(DIAL_SPIN_SPEED_CAP, step * DIAL_SPIN_SPEED_STEP)

\* StepSpeed without the cap on the increment
StepSpeed_NoCap(step) == DIAL_SPIN_BASE_SPEED + step * DIAL_SPIN_SPEED_STEP

\* spin speed of a step, degrees per second
StepSpeed(step) ==
    DIAL_SPIN_BASE_SPEED + Min(DIAL_SPIN_SPEED_CAP, step * DIAL_SPIN_SPEED_STEP)

\* _begin_next_dial_step for step index `step` of address `addr`.  The ring
\* angle is the one of the current state (no caller changes it); `phase` and
\* `line` are the sub-phase and status line its caller has set before the call,
\* which stand when it returns early.
BeginNextDialStep(step, addr, phase, line) ==
    IF step >= Len(addr)
    THEN /\ dial_phase' = phase
         /\ status' = line
         /\ UNCHANGED << ring_target_angle, ring_target_err, ring_speed >>
    ELSE /\ LET target == StepTarget(step, addr[step + 1],
                                     Ang(ring_angle, ring_target_err))
            IN  /\ ring_target_angle' = target.t
                /\ ring_target_err' = target.e
         /\ ring_speed' = StepSpeed(step)
         /\ dial_phase' = "SPINNING"
         /\ status' = StatusLine("Dialing symbol {i}/{n}...", step + 1, Len(addr))

----------------------------------------------------------------------------
(* Dialing engine: commands *)

\* AddressTooShort with the bound off by one
AddressTooShort_OffByOne == Len(entered_symbols) < MIN_ADDRESS_LENGTH - 1

\* _start_dial: the entered address is too short to dial
AddressTooShort == Len(entered_symbols) < MIN_ADDRESS_LENGTH

\* StartDial that does not copy the entered address
StartDial_NoSnapshot ==
    /\ UNCHANGED << entered_symbols, ring_angle, open_finish_at, connected_since,
                    ticks >>
    /\ IF state # "IDLE"
       THEN /\ cues' = << "error" >>
            /\ UNCHANGED << state, current_address, locked_count, ring_target_angle, ring_target_err,
                            ring_speed, dial_phase, dial_step_index,
                            chevron_phase_started_at, top_chevron_anim_until,
                            status, loop_active >>
       ELSE IF AddressTooShort
       THEN /\ status' = StatusLine("Need at least 7 symbols to dial.", 0, 0)
            /\ cues' = << "error" >>
            /\ UNCHANGED << state, current_address, locked_count, ring_target_angle, ring_target_err,
                            ring_speed, dial_phase, dial_step_index,
                            chevron_phase_started_at, top_chevron_anim_until,
                            loop_active >>
       ELSE /\ UNCHANGED current_address
            /\ locked_count' = 0
            /\ state' = "DIALING"
            /\ dial_step_index' = 0
            /\ chevron_phase_started_at' = 0
            /\ top_chevron_anim_until' = 0
            /\ cues' = << "engage", "start_loop" >>
            /\ loop_active' = TRUE
            /\ BeginNextDialStep(0, entered_symbols, "IDLE",
                                 StatusLine("Dialing sequence started.", 0, 0))

StartDial ==
    /\ UNCHANGED << entered_symbols, ring_angle, open_finish_at, connected_since,
                    ticks >>
    /\ IF state # "IDLE"
       THEN /\ cues' = << "error" >>
            /\ UNCHANGED << state, current_address, locked_count, ring_target_angle, ring_target_err,
                            ring_speed, dial_phase, dial_step_index,
                            chevron_phase_started_at, top_chevron_anim_until,
                            status, loop_active >>
       ELSE IF AddressTooShort
       THEN /\ status' = StatusLine("Need at least 7 symbols to dial.", 0, 0)
            /\ cues' = << "error" >>
            /\ UNCHANGED << state, current_address, locked_count, ring_target_angle, ring_target_err,
                            ring_speed, dial_phase, dial_step_index,
                            chevron_phase_started_at, top_chevron_anim_until,
                            loop_active >>
       ELSE /\ current_address' = entered_symbols
            /\ locked_count' = 0
            /\ state' = "DIALING"
            /\ dial_step_index' = 0
            /\ chevron_phase_started_at' = 0
            /\ top_chevron_anim_until' = 0
            /\ cues' = << "engage", "start_loop" >>
            /\ loop_active' = TRUE
            /\ BeginNextDialStep(0, entered_symbols, "IDLE",
                                 StatusLine("Dialing sequence started.", 0, 0))

\* CloseActiveGate that forgets to clear the entered address
CloseActiveGate_KeepsEntered ==
    /\ loop_active' = FALSE
    /\ state' = "IDLE"
    /\ locked_count' = 0
    /\ current_address' = << >>
    /\ UNCHANGED entered_symbols
    /\ ring_angle' = 0
    /\ ring_target_angle' = 0
    /\ ring_target_err' = 0
    /\ ring_speed' = 0
    /\ dial_phase' = "IDLE"
    /\ dial_step_index' = 0
    /\ top_chevron_anim_until' = 0
    /\ status' = StatusLine("Gate closed.", 0, 0)
    /\ cues' = << "stop_loop", "close" >>

\* CloseActiveGate that forgets to clear the dialed address
CloseActiveGate_KeepsCurrent ==
    /\ loop_active' = FALSE
    /\ state' = "IDLE"
    /\ locked_count' = 0
    /\ UNCHANGED current_address
    /\ entered_symbols' = << >>
    /\ ring_angle' = 0
    /\ ring_target_angle' = 0
    /\ ring_target_err' = 0
    /\ ring_speed' = 0
    /\ dial_phase' = "IDLE"
    /\ dial_step_index' = 0
    /\ top_chevron_anim_until' = 0
    /\ status' = StatusLine("Gate closed.", 0, 0)
    /\ cues' = << "stop_loop", "close" >>

\* CloseActiveGate that forgets to reset the lock count
CloseActiveGate_KeepsLocked ==
    /\ loop_active' = FALSE
    /\ state' = "IDLE"
    /\ UNCHANGED locked_count
    /\ current_address' = << >>
    /\ entered_symbols' = << >>
    /\ ring_angle' = 0
    /\ ring_target_angle' = 0
    /\ ring_target_err' = 0
    /\ ring_speed' = 0
    /\ dial_phase' = "IDLE"
    /\ dial_step_index' = 0
    /\ top_chevron_anim_until' = 0
    /\ status' = StatusLine("Gate closed.", 0, 0)
    /\ cues' = << "stop_loop", "close" >>

\* CloseActiveGate that leaves the ring where the episode took it
CloseActiveGate_KeepsRing ==
    /\ loop_active' = FALSE
    /\ state' = "IDLE"
    /\ locked_count' = 0
    /\ current_address' = << >>
    /\ entered_symbols' = << >>
    /\ UNCHANGED << ring_angle, ring_target_angle, ring_target_err >>
    /\ ring_speed' = 0
    /\ dial_phase' = "IDLE"
    /\ dial_step_index' = 0
    /\ top_chevron_anim_until' = 0
    /\ status' = StatusLine("Gate closed.", 0, 0)
    /\ cues' = << "stop_loop", "close" >>

\* CloseActiveGate that resets the target but leaves the ring where it is
CloseActiveGate_KeepsAngle ==
    /\ loop_active' = FALSE
    /\ state' = "IDLE"
    /\ locked_count' = 0
    /\ current_address' = << >>
    /\ entered_symbols' = << >>
    /\ UNCHANGED ring_angle
    /\ ring_target_angle' = 0
    /\ ring_target_err' = 0
    /\ ring_speed' = 0
    /\ dial_phase' = "IDLE"
    /\ dial_step_index' = 0
    /\ top_chevron_anim_until' = 0
    /\ status' = StatusLine("Gate closed.", 0, 0)
    /\ cues' = << "stop_loop", "close" >>

\* _close_gate from a state other than IDLE
CloseActiveGate ==
    /\ loop_active' = FALSE
    /\ state' = "IDLE"
    /\ locked_count' = 0
    /\ current_address' = << >>
    /\ entered_symbols' = << >>
    /\ ring_angle' = 0
    /\ ring_target_angle' = 0
    /\ ring_target_err' = 0
    /\ ring_speed' = 0
    /\ dial_phase' = "IDLE"
    /\ dial_step_index' = 0
    /\ top_chevron_anim_until' = 0
    /\ status' = StatusLine("Gate closed.", 0, 0)
    /\ cues' = << "stop_loop", "close" >>

\* CloseGate without the early return in IDLE
CloseGate_NoIdleCheck ==
    /\ UNCHANGED << chevron_phase_started_at, open_finish_at, connected_since, ticks >>
    /\ CloseActiveGate

CloseGate ==
    /\ UNCHANGED << chevron_phase_started_at, open_finish_at, connected_since, ticks >>
    /\ IF state = "IDLE"
       THEN /\ status' = StatusLine("Gate already idle.", 0, 0)
            /\ cues' = << >>
            /\ UNCHANGED << state, address_vars, ring_vars, dial_vars,
                            top_chevron_anim_until, loop_active >>
       ELSE CloseActiveGate

----------------------------------------------------------------------------
(* Dialing engine: _update *)

\* ring_speed * dt, with dt = dt_ms / 1000 seconds
MaxStep(speed, dt_ms) == (speed * UnitsPerDeg * dt_ms) \div 1000

\* SpinArrives that misses a target the frame step would pass
SpinArrives_Exact(delta, max_step) == delta = 0

\* the spin leg ends in this frame
SpinArrives(delta, max_step) == Abs(delta) <= max_step

\* UpdateSpinning that keeps the ring angle within one turn
UpdateSpinning_Wraps(dt_ms, now) ==
    LET delta == ring_target_angle - ring_angle
        max_step == MaxStep(ring_speed, dt_ms)
    IN  /\ cues' = << >>
        /\ UNCHANGED << state, locked_count, ring_target_angle, ring_target_err,
                        ring_speed, dial_step_index, open_finish_at,
                        connected_since, loop_active >>
        /\ IF SpinArrives(delta, max_step)
           THEN /\ ring_angle' = ring_target_angle
                /\ dial_phase' = "CHEVRON_ACTUATE"
                /\ chevron_phase_started_at' = now
                /\ top_chevron_anim_until' = now + CHEVRON_ACTUATE_MS
                /\ status' = StatusLine("Chevron {k} encoding...", locked_count + 1, 0)
           ELSE /\ ring_angle' =
                      (ring_angle + (IF delta > 0 THEN max_step ELSE -max_step)) % FULL_TURN
                /\ UNCHANGED << dial_phase, chevron_phase_started_at,
                                top_chevron_anim_until, status >>

\* UpdateSpinning that ends the leg where the last frame step takes the ring
UpdateSpinning_NoSnap(dt_ms, now) ==
    LET delta == ring_target_angle - ring_angle
        max_step == MaxStep(ring_speed, dt_ms)
    IN  /\ cues' = << >>
        /\ UNCHANGED << state, locked_count, ring_target_angle, ring_target_err,
                        ring_speed, dial_step_index, open_finish_at,
                        connected_since, loop_active >>
        /\ ring_angle' = ring_angle + (IF delta > 0 THEN max_step ELSE -max_step)
        /\ IF SpinArrives(delta, max_step)
           THEN /\ dial_phase' = "CHEVRON_ACTUATE"
                /\ chevron_phase_started_at' = now
                /\ top_chevron_anim_until' = now + CHEVRON_ACTUATE_MS
                /\ status' = StatusLine("Chevron {k} encoding...", locked_count + 1, 0)
           ELSE /\ UNCHANGED << dial_phase, chevron_phase_started_at,
                                top_chevron_anim_until, status >>

\* _update, state DIALING, phase SPINNING
UpdateSpinning(dt_ms, now) ==
    LET delta == ring_target_angle - ring_angle
        max_step == MaxStep(ring_speed, dt_ms)
    IN  /\ cues' = << >>
        /\ UNCHANGED << state, locked_count, ring_target_angle, ring_target_err, ring_speed,
                        dial_step_index, open_finish_at, connected_since,
                        loop_active >>
        /\ IF SpinArrives(delta, max_step)
           THEN /\ ring_angle' = ring_target_angle
                /\ dial_phase' = "CHEVRON_ACTUATE"
                /\ chevron_phase_started_at' = now
                /\ top_chevron_anim_until' = now + CHEVRON_ACTUATE_MS
                /\ status' = StatusLine("Chevron {k} encoding...", locked_count + 1, 0)
           ELSE /\ ring_angle' = ring_angle + (IF delta > 0 THEN max_step ELSE -max_step)
                /\ UNCHANGED << dial_phase, chevron_phase_started_at,
                                top_chevron_anim_until, status >>

\* FinishDialing that skips the opening
FinishDialing_SkipsOpening(now) ==
    /\ state' = "CONNECTED"
    /\ dial_phase' = "IDLE"
    /\ open_finish_at' = now + OPEN_DURATION_MS
    /\ status' = StatusLine("Chevron lock complete. Opening wormhole...", 0, 0)
    /\ loop_active' = FALSE

\* FinishDialing that leaves the open deadline as it was
FinishDialing_StaleDeadline(now) ==
    /\ state' = "OPENING"
    /\ dial_phase' = "IDLE"
    /\ UNCHANGED open_finish_at
    /\ status' = StatusLine("Chevron lock complete. Opening wormhole...", 0, 0)
    /\ loop_active' = FALSE

\* FinishDialing that leaves the sub-phase as it is
FinishDialing_KeepsPhase(now) ==
    /\ state' = "OPENING"
    /\ UNCHANGED dial_phase
    /\ open_finish_at' = now + OPEN_DURATION_MS
    /\ status' = StatusLine("Chevron lock complete. Opening wormhole...", 0, 0)
    /\ loop_active' = FALSE

\* FinishDialing that leaves the ring loop playing
FinishDialing_KeepsLoop(now) ==
    /\ state' = "OPENING"
    /\ dial_phase' = "IDLE"
    /\ open_finish_at' = now + OPEN_DURATION_MS
    /\ status' = StatusLine("Chevron lock complete. Opening wormhole...", 0, 0)
    /\ UNCHANGED loop_active

\* _finish_dialing(now)
FinishDialing(now) ==
    /\ state' = "OPENING"
    /\ dial_phase' = "IDLE"
    /\ open_finish_at' = now + OPEN_DURATION_MS
    /\ status' = StatusLine("Chevron lock complete. Opening wormhole...", 0, 0)
    /\ loop_active' = FALSE

\* ActuationOver that does not wait for the deadline
ActuationOver_NoWait(now) == now >= chevron_phase_started_at

\* the chevron actuation that began at the end of the spin leg is over
ActuationOver(now) == now >= top_chevron_anim_until

\* AddressLocked with the bound off by one
AddressLocked_OffByOne(count) == count > Len(current_address)

\* `count` chevrons locked complete the address
AddressLocked(count) == count >= Len(current_address)

\* UpdateActuate that spins again for the symbol it has just locked
UpdateActuate_KeepsStep(now) ==
    IF ActuationOver(now)
    THEN /\ locked_count' = locked_count + 1
         /\ UNCHANGED << ring_angle, chevron_phase_started_at,
                         top_chevron_anim_until, connected_since >>
         /\ IF AddressLocked(locked_count + 1)
            THEN /\ FinishDialing(now)
                 /\ cues' = << "lock", "stop_loop", "kawoosh" >>
                 /\ UNCHANGED << ring_target_angle, ring_target_err, ring_speed,
                                 dial_step_index >>
            ELSE /\ UNCHANGED dial_step_index
                 /\ BeginNextDialStep(dial_step_index, current_address, dial_phase,
                        StatusLine("Chevron {k} locked of {n}.", locked_count + 1,
                                   Len(current_address)))
                 /\ cues' = << "lock" >>
                 /\ UNCHANGED << state, open_finish_at, loop_active >>
    ELSE /\ cues' = << >>
         /\ UNCHANGED << state, ring_vars, dial_vars, timer_vars, status, loop_active >>

\* _update, state DIALING, phase CHEVRON_ACTUATE
UpdateActuate(now) ==
    IF ActuationOver(now)
    THEN /\ locked_count' = locked_count + 1
         /\ UNCHANGED << ring_angle, chevron_phase_started_at,
                         top_chevron_anim_until, connected_since >>
         /\ IF AddressLocked(locked_count + 1)
            THEN /\ FinishDialing(now)
                 /\ cues' = << "lock", "stop_loop", "kawoosh" >>
                 /\ UNCHANGED << ring_target_angle, ring_target_err, ring_speed, dial_step_index >>
            ELSE /\ dial_step_index' = dial_step_index + 1
                 /\ BeginNextDialStep(dial_step_index + 1, current_address, dial_phase,
                        StatusLine("Chevron {k} locked of {n}.", locked_count + 1,
                                   Len(current_address)))
                 /\ cues' = << "lock" >>
                 /\ UNCHANGED << state, open_finish_at, loop_active >>
    ELSE /\ cues' = << >>
         /\ UNCHANGED << state, ring_vars, dial_vars, timer_vars, status, loop_active >>

\* the wormhole has finished opening
OpeningOver(now) == now >= open_finish_at

\* _update, state OPENING
UpdateOpening(now) ==
    IF OpeningOver(now)
    THEN /\ state' = "CONNECTED"
         /\ connected_since' = now
         /\ status' = StatusLine("Wormhole established. Gate is active.", 0, 0)
         /\ cues' = << "connected" >>
         /\ UNCHANGED << ring_vars, dial_vars, chevron_phase_started_at,
                         top_chevron_anim_until, open_finish_at, loop_active >>
    ELSE /\ cues' = << >>
         /\ UNCHANGED << state, ring_vars, dial_vars, timer_vars, status, loop_active >>

\* UpdateConnected that stores the ring angle wrapped into one turn
UpdateConnected_WrapsRing(now) ==
    /\ status' = StatusLine("Wormhole active for {s}s.", now - connected_since, 0)
    /\ cues' = << >>
    /\ ring_angle' = ring_angle % FULL_TURN
    /\ UNCHANGED << state, ring_target_angle, ring_target_err, ring_speed, dial_vars, timer_vars,
                    loop_active >>

\* _update, state CONNECTED
UpdateConnected(now) ==
    /\ status' = StatusLine("Wormhole active for {s}s.", now - connected_since, 0)
    /\ cues' = << >>
    /\ UNCHANGED << state, ring_vars, dial_vars, timer_vars, loop_active >>

\* UpdateAt whose OPENING branch is the final else
UpdateAt_OpeningAsElse(dt_ms, now) ==
    /\ UNCHANGED address_vars
    /\ IF state = "DIALING"
       THEN IF dial_phase = "SPINNING"
            THEN UpdateSpinning(dt_ms, now)
            ELSE IF dial_phase = "CHEVRON_ACTUATE"
            THEN UpdateActuate(now)
            ELSE /\ cues' = << >>
                 /\ UNCHANGED << state, ring_vars, dial_vars, timer_vars, status,
                                 loop_active >>
       ELSE IF state = "CONNECTED"
       THEN UpdateConnected(now)
       ELSE UpdateOpening(now)

\* _update(dt) in the frame whose clock reading is `now`
UpdateAt(dt_ms, now) ==
    /\ UNCHANGED address_vars
    /\ IF state = "DIALING"
       THEN IF dial_phase = "SPINNING"
            THEN UpdateSpinning(dt_ms, now)
            ELSE IF dial_phase = "CHEVRON_ACTUATE"
            THEN UpdateActuate(now)
            ELSE /\ cues' = << >>
                 /\ UNCHANGED << state, ring_vars, dial_vars, timer_vars, status,
                                 loop_active >>
       ELSE IF state = "OPENING"
       THEN UpdateOpening(now)
       ELSE IF state = "CONNECTED"
       THEN UpdateConnected(now)
       ELSE /\ cues' = << >>
            /\ UNCHANGED << state, ring_vars, dial_vars, timer_vars, status,
                            loop_active >>

----------------------------------------------------------------------------
(* The frame loop and the user *)

\* the latest moment the engine holds a timestamp for
LatestStamp ==
    Max(Max(chevron_phase_started_at + CHEVRON_ACTUATE_MS, top_chevron_anim_until),
        Max(open_finish_at, connected_since))

\* The frames that are followed: every frame of an episode up to MaxClock; in
\* IDLE and CONNECTED, where frames change nothing but the clock and the
\* status line, those up to MaxDwell past the input window and the timestamps.
FrameHorizon ==
    IF state \in {"DIALING", "OPENING"}
    THEN MaxClock
    ELSE Min(MaxClock, Max(MaxStartTime, LatestStamp) + MaxDwell)

\* one frame of StargateApp.run: the clock advances by the frame time and
\* _update reads it
Update(dt_ms) ==
    /\ ticks + dt_ms <= FrameHorizon
    /\ ticks' = ticks + dt_ms
    /\ UpdateAt(dt_ms, ticks + dt_ms)

\* The user composes and dials addresses while the clock leaves room for a
\* whole episode: a command that the engine would accept in IDLE is issued
\* no later than MaxStartTime.  Commands in other states come at any time.
InputWindow == state = "IDLE" => ticks <= MaxStartTime

----------------------------------------------------------------------------
(* The pointer and the window *)

\* outer radii that a resized window asks for: one below the minimum and the
\* startup radius
RadiusChoices == { MIN_OUTER_RADIUS - 70, STARTUP_RADIUS }

\* the bounds of the sectors, which do not depend on the radius
SectorBounds ==
    { OuterSpans[i][j] : i \in DOMAIN OuterSpans, j \in 1..2 }
        \cup { InnerSpans[i][j] : i \in DOMAIN InnerSpans, j \in 1..2 }

\* whole degrees of the pointer angle: inside and outside the spans that wrap
WholeDegChoices == { 5, 10, 180, 350, 355 }

\* pointer angles: the sector bounds and whole degrees
AngleChoices == SectorBounds \cup { WholeDeg(d) : d \in WholeDegChoices }

\* pointer distances: the center, and both sides of every radius of the wheel
DistChoices(w) ==
    { 0, w.center_button_radius, w.center_button_radius + 1,
      w.inner_ring_inner - 1, w.inner_ring_inner,
      w.inner_ring_outer, w.inner_ring_outer + 1,
      w.outer_ring_inner - 1, w.outer_ring_inner,
      w.outer_radius, w.outer_radius + 1 }

\* _handle_hover
HandleHover(angle, dist) ==
    /\ pointer' = [angle |-> angle, dist |-> dist]
    /\ LET found == HitTest(dhd, angle, dist)
       IN  /\ hit' = found
           /\ hovered_symbol' = IF found.kind = "symbol" THEN found.index ELSE None
    /\ UNCHANGED << dhd, engine_vars >>

\* a VIDEORESIZE event: _rebuild_layout calls set_geometry
Resize(outer_radius) ==
    /\ dhd' = SetGeometry(outer_radius)
    /\ UNCHANGED << pointer, hit, hovered_symbol, engine_vars >>

\* the largest outer radius a resized window asks for
MaxRadius == 320

\* outer radii of resized windows, from below the minimum
LayoutRadii == (MIN_OUTER_RADIUS - 10)..MaxRadius

----------------------------------------------------------------------------
(* Specification *)

AddSymbolStep ==
    InputWindow /\ UNCHANGED wheel_vars /\ \E idx \in SymbolChoices : AddSymbol(idx)

RemoveSymbolStep == InputWindow /\ UNCHANGED wheel_vars /\ RemoveSymbol

ClearSymbolsStep == InputWindow /\ UNCHANGED wheel_vars /\ ClearSymbols

LoadPresetStep ==
    InputWindow /\ UNCHANGED wheel_vars /\ \E name \in PresetChoices : LoadPreset(name)

StartDialStep == InputWindow /\ UNCHANGED wheel_vars /\ StartDial

CloseGateStep == UNCHANGED wheel_vars /\ CloseGate

UpdateStep == UNCHANGED wheel_vars /\ \E dt_ms \in DtChoices : Update(dt_ms)

Next ==
    \/ AddSymbolStep
    \/ RemoveSymbolStep
    \/ ClearSymbolsStep
    \/ LoadPresetStep
    \/ StartDialStep
    \/ CloseGateStep
    \/ UpdateStep

Spec == Init /\ [][Next]_vars

\* an episode that is never closed
NoCloseNext ==
    \/ AddSymbolStep
    \/ RemoveSymbolStep
    \/ ClearSymbolsStep
    \/ LoadPresetStep
    \/ StartDialStep
    \/ UpdateStep

\* the frame loop calls _update in every frame, and close() is never called
NoCloseLiveSpec == Init /\ [][NoCloseNext]_vars /\ WF_vars(UpdateStep)

----------------------------------------------------------------------------
\* the commands of the panel with every preset button, between two frames
AnyPresetStep ==
    /\ InputWindow
    /\ UNCHANGED wheel_vars
    /\ \E name \in DOMAIN KNOWN_ADDRESSES : LoadPreset(name)

PresetNext ==
    \/ AddSymbolStep
    \/ RemoveSymbolStep
    \/ ClearSymbolsStep
    \/ AnyPresetStep
    \/ StartDialStep
    \/ CloseGateStep

PresetSpec == Init /\ [][PresetNext]_vars

\* no episode is started after this clock reading when redialling: early
\* enough for the redialled episode to end before MaxClock
MaxRedialTime == MaxStartTime + (EpisodeBudgetMs \div 2)

\* Redialling: a first episode starts at clock 0, and an address is loaded
\* and dialled again once an episode has reached OPENING
RedialWindow ==
    state = "IDLE" => (ticks = 0 \/ (open_finish_at > 0 /\ ticks <= MaxRedialTime))

RedialLoadStep ==
    /\ RedialWindow
    /\ UNCHANGED wheel_vars
    /\ \E name \in PresetChoices : LoadPreset(name)

RedialStartStep == RedialWindow /\ UNCHANGED wheel_vars /\ StartDial

RedialNext ==
    \/ RedialLoadStep
    \/ RedialStartStep
    \/ CloseGateStep
    \/ UpdateStep

RedialSpec == Init /\ [][RedialNext]_vars

\* the pointer moves over the wheel, around the center or along a radius, and
\* the window is resized
HandleHoverStep ==
    \/ \E angle \in AngleChoices : HandleHover(angle, pointer.dist)
    \/ \E dist \in DistChoices(dhd) : HandleHover(pointer.angle, dist)

ResizeStep == \E outer_radius \in RadiusChoices : Resize(outer_radius)

WheelNext ==
    \/ HandleHoverStep
    \/ ResizeStep

WheelSpec == Init /\ [][WheelNext]_vars

\* the window is resized to any size
LayoutStep == \E outer_radius \in LayoutRadii : Resize(outer_radius)

LayoutNext == LayoutStep

LayoutSpec == Init /\ [][LayoutNext]_vars

(* Properties *)

Range(seq) == { seq[i] : i \in DOMAIN seq }

JustClosed == cues = << "stop_loop", "close" >>

\* C1: start() starts an episode (engage cue, state DIALING, current = entered)
\* exactly when the state is IDLE and 7 <= len(entered) <= 9; in every other
\* case entered, current and the state are unchanged and the error cue is emitted.
StartGating ==
    [][ StartDial =>
          LET ok == /\ state = "IDLE"
                    /\ Len(entered_symbols) >= MIN_ADDRESS_LENGTH
                    /\ Len(entered_symbols) <= MAX_ADDRESS_LENGTH
          IN  /\ ok <=> ("engage" \in Range(cues') /\ state' = "DIALING")
              /\ ok => current_address' = entered_symbols
              /\ ~ok => /\ UNCHANGED << state, entered_symbols, current_address >>
                        /\ cues' = << "error" >>
      ]_vars

StartGatingWitness ==
    /\ state = "DIALING"
    /\ cues = << "engage", "start_loop" >>
    /\ Len(current_address) = MIN_ADDRESS_LENGTH
    /\ current_address = entered_symbols

\* C2: when close() is never called and frames keep coming, every episode
\* reaches CONNECTED with locked_count = len(current).
DialingConnects ==
    (state = "DIALING")
        ~> (state = "CONNECTED" /\ locked_count = Len(current_address))

DialingConnectsWitness ==
    /\ state = "CONNECTED"
    /\ current_address = KNOWN_ADDRESSES.Abydos
    /\ locked_count = Len(current_address)

\* C3: while an episode is dialing, locked_count changes only by +1, only when
\* an actuation whose deadline has passed completes (with the lock cue), stays
\* below len(current) while DIALING, and reaches len(current) in the very step
\* that moves DIALING to OPENING; after that it does not change until close().
LockProgress ==
    [][ /\ (state = "DIALING" /\ state' # "IDLE") =>
              /\ locked_count' \in {locked_count, locked_count + 1}
              /\ locked_count' = locked_count + 1 =>
                    /\ dial_phase = "CHEVRON_ACTUATE"
                    /\ ticks' >= top_chevron_anim_until
                    /\ "lock" \in Range(cues')
              /\ locked_count < Len(current_address)
              /\ (locked_count' = Len(current_address')) <=> (state' = "OPENING")
        /\ (state \in {"OPENING", "CONNECTED"} /\ state' # "IDLE") =>
              /\ locked_count = Len(current_address)
              /\ UNCHANGED locked_count
      ]_vars

LockProgressWitness ==
    /\ state = "OPENING"
    /\ cues = << "lock", "stop_loop", "kawoosh" >>
    /\ locked_count = Len(current_address)

\* C4: close() from any state other than IDLE leaves entered = [], current = [],
\* locked_count = 0 and state = IDLE.
CloseResets ==
    [][ (state # "IDLE" /\ CloseGate) =>
          /\ state' = "IDLE"
          /\ entered_symbols' = << >>
          /\ current_address' = << >>
          /\ locked_count' = 0
      ]_vars

\* closed while a chevron actuation was pending
CloseResetsWitness ==
    /\ JustClosed
    /\ state = "IDLE"
    /\ chevron_phase_started_at > 0
    /\ ticks < chevron_phase_started_at + CHEVRON_ACTUATE_MS
    /\ entered_symbols = << >>

\* C5: close() in the middle of an episode makes the state IDLE at once, and
\* from IDLE no frame and no command but a successful start() leaves IDLE,
\* changes locked_count from 0 or emits a lock, kawoosh or connected cue, also
\* when a deadline of the closed episode passes.
ClosedStaysIdle ==
    [][ /\ (state \in {"DIALING", "OPENING"} /\ CloseGate) =>
              (state' = "IDLE" /\ locked_count' = 0)
        /\ state = "IDLE" =>
              \/ /\ state' = "IDLE"
                 /\ locked_count' = 0
                 /\ current_address' = << >>
                 /\ Range(cues') \cap {"lock", "kawoosh", "connected"} = {}
              \/ /\ StartDial
                 /\ ~AddressTooShort
                 /\ state' = "DIALING"
      ]_vars

\* closed during an actuation, and a later frame has passed its deadline
ClosedStaysIdleWitness ==
    /\ state = "IDLE"
    /\ status = StatusLine("Gate closed.", 0, 0)
    /\ cues = << >>
    /\ chevron_phase_started_at > 0
    /\ open_finish_at = 0
    /\ ticks >= chevron_phase_started_at + CHEVRON_ACTUATE_MS
    /\ ticks < chevron_phase_started_at + CHEVRON_ACTUATE_MS + FrameMs

\* C6: len(entered) never exceeds 9, and an append at length 9 is rejected
\* (error cue) and leaves entered unchanged.
AddressBounded ==
    [][ /\ Len(entered_symbols') <= MAX_ADDRESS_LENGTH
        /\ \A idx \in SymbolChoices :
              (AddSymbol(idx) /\ Len(entered_symbols) = MAX_ADDRESS_LENGTH) =>
                  /\ UNCHANGED entered_symbols
                  /\ cues' = << "error" >>
      ]_vars

AddressBoundedWitness ==
    /\ Len(entered_symbols) = MAX_ADDRESS_LENGTH
    /\ status = StatusLine("Address full (max 9 symbols).", 0, 0)
    /\ cues = << "error" >>

\* C7: the state changes only along IDLE -> DIALING (a successful start),
\* DIALING -> OPENING (the actuation of the last symbol completes),
\* OPENING -> CONNECTED (the open deadline is reached) and
\* DIALING, OPENING, CONNECTED -> IDLE (close).
StateEdges ==
    [][ state' # state =>
          \/ /\ state = "IDLE" /\ state' = "DIALING"
             /\ StartDial
          \/ /\ state = "DIALING" /\ state' = "OPENING"
             /\ dial_phase = "CHEVRON_ACTUATE"
             /\ dial_step_index = Len(current_address) - 1
             /\ ticks' >= top_chevron_anim_until
          \/ /\ state = "OPENING" /\ state' = "CONNECTED"
             /\ ticks' >= open_finish_at
          \/ /\ state # "IDLE" /\ state' = "IDLE"
             /\ CloseGate
      ]_vars

StateEdgesWitness ==
    /\ state = "CONNECTED"
    /\ cues = << "connected" >>
    /\ connected_since = ticks

\* C8: current is empty exactly when the state is IDLE.
CurrentEmptyIffIdle == (current_address = << >>) <=> (state = "IDLE")

\* closed while the wormhole was opening
CurrentEmptyIffIdleWitness ==
    /\ JustClosed
    /\ state = "IDLE"
    /\ current_address = << >>
    /\ open_finish_at > ticks

\* C9 as stated: locked_count is 0 exactly when the state is IDLE.
LockedZeroIffIdle == (locked_count = 0) <=> (state = "IDLE")

\* C9, amended: locked_count is 0 whenever the state is IDLE and is not 0
\* whenever the state is OPENING or CONNECTED; in DIALING it is 0 until the
\* first actuation completes.
LockedZeroWhenIdle ==
    /\ state = "IDLE" => locked_count = 0
    /\ state \in {"OPENING", "CONNECTED"} => locked_count > 0
    /\ (state = "DIALING" /\ locked_count = 0) => dial_step_index = 0

\* closed after every chevron had locked
LockedZeroWhenIdleWitness ==
    /\ JustClosed
    /\ state = "IDLE"
    /\ locked_count = 0
    /\ connected_since > 0

\* C10: 0 <= locked_count <= len(current) in every reachable state.
LockedWithinAddress == 0 <= locked_count /\ locked_count <= Len(current_address)

LockedWithinAddressWitness ==
    /\ state = "OPENING"
    /\ Len(current_address) = MAX_ADDRESS_LENGTH
    /\ locked_count = MAX_ADDRESS_LENGTH

\* an address-model command: append, removeLast, clear or loadPreset
AddressCommand ==
    \/ \E idx \in SymbolChoices : AddSymbol(idx)
    \/ RemoveSymbol
    \/ ClearSymbols
    \/ \E name \in PresetChoices : LoadPreset(name)

\* an address-model command that the engine rejects
RejectedAddressCommand ==
    \/ state # "IDLE" /\ AddressCommand
    \/ state = "IDLE" /\ AddressFull /\ \E idx \in SymbolChoices : AddSymbol(idx)
    \/ /\ state = "IDLE" /\ ~AddressFull
       /\ \E idx \in SymbolChoices : NoSuchSymbol(idx) /\ AddSymbol(idx)

\* C11: while the state is not IDLE, append, removeLast, clear and loadPreset
\* leave entered, current, locked_count, the state, the sub-phase, the step
\* index and the ring kinematics unchanged.
AddressFrozenWhileActive ==
    [][ (state # "IDLE" /\ AddressCommand) =>
            UNCHANGED << entered_symbols, current_address, locked_count, state,
                         dial_phase, dial_step_index, ring_vars >>
      ]_vars

\* an address-model command was rejected while the gate was connected
AddressFrozenWhileActiveWitness ==
    /\ state = "CONNECTED"
    /\ cues = << "error" >>
    /\ entered_symbols = current_address
    /\ entered_symbols # << >>

\* C12 as stated: every rejected address-model command emits the error cue.
RejectionsEmitError ==
    [][ RejectedAddressCommand => cues' = << "error" >> ]_vars

\* the status lines that report a rejection
RejectionLines ==
    { StatusLine("Address full (max 9 symbols).", 0, 0),
      StatusLine("Need at least 7 symbols to dial.", 0, 0) }

\* C13 as stated: every append, start, removeLast, clear and loadPreset that
\* is rejected because the address is too short, the address is full or the
\* state is not IDLE sets the status line to a rejection message.
RejectionsSetStatus ==
    [][ ( \/ state # "IDLE" /\ (AddressCommand \/ StartDial)
          \/ state = "IDLE" /\ AddressFull /\ \E idx \in SymbolChoices : AddSymbol(idx)
          \/ state = "IDLE" /\ AddressTooShort /\ StartDial )
          => status' \in RejectionLines
      ]_vars

\* a spin leg begins in this step: by start() or by the lock of a chevron
BeginsStep == dial_phase # "SPINNING" /\ dial_phase' = "SPINNING"

\* C14: the signed travel of a leg (target minus ring angle when the leg
\* begins) is positive on even steps and negative on odd steps, so consecutive
\* steps travel in opposite directions.
DirectionAlternates ==
    [][ BeginsStep =>
          /\ dial_step_index' % 2 = 0 => ring_target_angle' - ring_angle' > 0
          /\ dial_step_index' % 2 = 1 => ring_target_angle' - ring_angle' < 0
      ]_vars

\* the second leg has just begun, counter-clockwise
DirectionAlternatesWitness ==
    /\ dial_phase = "SPINNING"
    /\ cues = << "lock" >>
    /\ dial_step_index = 1
    /\ ring_target_angle < ring_angle

ConnectedIsTerminal ==
    [][ state = "CONNECTED" =>
          /\ CloseGate \/ UNCHANGED << state, current_address, entered_symbols,
                                       locked_count, ring_angle >>
          /\ ticks' # ticks =>
                /\ status' = StatusLine("Wormhole active for {s}s.",
                                        ticks' - connected_since, 0)
                /\ UNCHANGED << state, address_vars, ring_vars, dial_vars,
                                timer_vars, loop_active >>
      ]_vars

\* a frame has recomputed the status line of a connected gate
ConnectedIsTerminalWitness ==
    /\ state = "CONNECTED"
    /\ status = StatusLine("Wormhole active for {s}s.", ticks - connected_since, 0)
    /\ ticks > connected_since
    /\ ring_angle # ring_angle % FULL_TURN

\* C17: close() in IDLE only sets the status line to "already idle": entered,
\* current, locked_count, the ring kinematics, the sub-phase and the state are
\* unchanged and no cue is emitted.
CloseWhenIdle ==
    [][ (state = "IDLE" /\ CloseGate) =>
          /\ status' = StatusLine("Gate already idle.", 0, 0)
          /\ cues' = << >>
          /\ UNCHANGED << state, address_vars, ring_vars, dial_vars, timer_vars,
                          loop_active >>
      ]_vars

\* close() found the gate idle with an address entered
CloseWhenIdleWitness ==
    /\ state = "IDLE"
    /\ status = StatusLine("Gate already idle.", 0, 0)
    /\ cues = << >>
    /\ Len(entered_symbols) >= MIN_ADDRESS_LENGTH

\* C18: a successful start() sets current to entered, locked_count and
\* dial_step_index to 0 and the sub-phase to SPINNING, and current keeps that
\* value through DIALING, OPENING and CONNECTED until close().
StartSnapshots ==
    [][ /\ (state = "IDLE" /\ state' # "IDLE") =>
              /\ current_address' = entered_symbols
              /\ UNCHANGED entered_symbols
              /\ locked_count' = 0
              /\ dial_step_index' = 0
              /\ dial_phase' = "SPINNING"
        /\ (state # "IDLE" /\ state' # "IDLE") => UNCHANGED current_address
      ]_vars

\* the address snapshot of an 8-symbol episode, after all its locks
StartSnapshotsWitness ==
    /\ state = "OPENING"
    /\ Len(current_address) = MIN_ADDRESS_LENGTH + 1
    /\ current_address = entered_symbols

\* C19: in IDLE, append(symbol) with len(entered) < 9 and symbol in [0, 39)
\* appends exactly that symbol, also when it is already present; an append
\* with a symbol outside [0, 39) leaves entered unchanged.
AppendExtends ==
    [][ \A idx \in SymbolChoices :
          (state = "IDLE" /\ ~AddressFull /\ AddSymbol(idx)) =>
              IF 0 <= idx /\ idx < SYMBOL_COUNT
              THEN entered_symbols' = entered_symbols \o << idx >>
              ELSE UNCHANGED entered_symbols
      ]_vars

\* a symbol was appended that the address already held
AppendExtendsWitness ==
    /\ state = "IDLE"
    /\ cues = << "press" >>
    /\ status = StatusLine("Selected {n} symbols.", Len(entered_symbols), 0)
    /\ Len(entered_symbols) >= 2
    /\ entered_symbols[Len(entered_symbols)] = entered_symbols[Len(entered_symbols) - 1]


\* the last command was a preset load in IDLE
JustLoaded ==
    /\ state = "IDLE"
    /\ cues = << "press" >>
    /\ status.msg = "Loaded preset: {name}."

\* C20: in IDLE, loadPreset(name) replaces entered, whatever it held, with the
\* predefined sequence; every preset has a length in [7, 9] and symbols in
\* [0, 39); a start() issued directly after loadPreset succeeds.
PresetsLoadAndDial ==
    [][ /\ \A name \in DOMAIN KNOWN_ADDRESSES :
              (state = "IDLE" /\ LoadPreset(name)) =>
                  /\ entered_symbols' = KNOWN_ADDRESSES[name]
                  /\ Len(entered_symbols') \in MIN_ADDRESS_LENGTH..MAX_ADDRESS_LENGTH
                  /\ \A i \in DOMAIN entered_symbols' :
                         entered_symbols'[i] \in 0..(SYMBOL_COUNT - 1)
        /\ (JustLoaded /\ StartDial) =>
              /\ state' = "DIALING"
              /\ current_address' = KNOWN_ADDRESSES[status.name]
              /\ cues' = << "engage", "start_loop" >>
      ]_vars

\* a dial started on a loaded preset
PresetsLoadAndDialWitness ==
    /\ state = "DIALING"
    /\ cues = << "engage", "start_loop" >>
    /\ status = StatusLine("Dialing symbol {i}/{n}...", 1, MIN_ADDRESS_LENGTH)
    /\ current_address = KNOWN_ADDRESSES.Chulak
    /\ entered_symbols = current_address


----------------------------------------------------------------------------
(* Properties of the wheel *)

\* how far clockwise y lies from x, as a double-like pair in [0, 360)
CwOffset(x, y) ==
    IF DblLessEq(x, y)
    THEN Dbl(y.t - x.t, y.e - x.e)
    ELSE Dbl(y.t - x.t + 3 * 360, y.e - x.e)

\* angle lies in the clockwise half-open interval [start, end)
InCwInterval(angle, start, end) ==
    DblLess(CwOffset(start, angle), CwOffset(start, end))

\* span bounds tried against the pointer angle
SpanBounds == { WholeDeg(d) : d \in {0, 10, 180, 350} }

\* C21: angleInSpan(angle, start, end) is true exactly when angle lies in the
\* clockwise half-open interval [start, end), wrapping through 0 when
\* start > end: for start = 350 and end = 10 it is true for 355 and 5 and
\* false for 180, and the end bound is always excluded.
AngleInSpanIsCwInterval ==
    /\ \A start \in SpanBounds : \A end \in SpanBounds :
          AngleInSpan(pointer.angle, start, end)
              <=> InCwInterval(pointer.angle, start, end)
    /\ \A start \in SpanBounds : ~AngleInSpan(pointer.angle, start, pointer.angle)
    /\ pointer.angle \in { WholeDeg(355), WholeDeg(5) }
          => AngleInSpan(pointer.angle, WholeDeg(350), WholeDeg(10))
    /\ pointer.angle = WholeDeg(180)
          => ~AngleInSpan(pointer.angle, WholeDeg(350), WholeDeg(10))

\* the pointer at 355 degrees is over the inner sector whose span wraps
AngleInSpanIsCwIntervalWitness ==
    /\ pointer.angle = WholeDeg(355)
    /\ hit = HitResult("symbol", SYMBOL_COUNT - 1)
    /\ hovered_symbol = SYMBOL_COUNT - 1


\* C22 as stated: for the sector table built by buildSectors, no two distinct
\* sectors both match the same angle and distance.  The doubles of the outer
\* ring refute it: the end of sector 11, computed as start + step, is one ulp
\* above 160.0, the start of sector 12, computed as 12 * step.
SectorsDisjoint ==
    Len(Matching(BuildSectors(dhd), pointer.angle, pointer.dist)) <= 1


\* the pointer of the next state is off both rings and off the center zone
OffTheRingsNext ==
    \/ pointer'.dist > dhd.outer_radius
    \/ dhd.inner_ring_outer < pointer'.dist /\ pointer'.dist < dhd.outer_ring_inner
    \/ dhd.center_button_radius < pointer'.dist /\ pointer'.dist < dhd.inner_ring_inner

\* a pointer motion was handled
Hovers == << pointer, hit, hovered_symbol >>' # << pointer, hit, hovered_symbol >>

\* C23: hitTest returns Center whenever dist <= centerRadius, whatever the
\* angle; otherwise the index of the first sector whose radius band contains
\* dist and whose span contains the angle, and None when no sector matches,
\* as it is beyond the outer radius, between the rings, and between the
\* center zone and the inner ring.
HitTestClassifies ==
    [][ Hovers =>
          LET sectors == BuildSectors(dhd)
              matches == { k \in 1..SYMBOL_COUNT :
                             SectorMatches(sectors[k], pointer'.angle, pointer'.dist) }
          IN  /\ pointer'.dist <= dhd.center_button_radius
                    => hit' = HitResult("center", None)
              /\ pointer'.dist > dhd.center_button_radius =>
                    /\ hit'.kind \in {"symbol", "none"}
                    /\ hit'.kind = "none" <=> matches = {}
                    /\ hit'.kind = "none" => hit'.index = None
                    /\ hit'.kind = "symbol" =>
                          \E k \in matches :
                              /\ \A j \in matches : k <= j
                              /\ hit'.index = sectors[k].index
                    /\ OffTheRingsNext => hit' = HitResult("none", None)
              /\ hovered_symbol' = IF hit'.kind = "symbol" THEN hit'.index ELSE None
      ]_vars

\* the pointer is between the two rings of the wheel it was tested against
HitTestClassifiesWitness ==
    /\ hit = HitResult("none", None)
    /\ pointer.dist = dhd.inner_ring_outer + 1
    /\ pointer.dist < dhd.outer_ring_inner
    /\ pointer.angle = WholeDeg(180)

\* C24: buildSectors gives the indices 0..26 to the outer-ring sectors in
\* angular order from 0 degrees and 27..38 to the inner-ring sectors in
\* angular order from 15 degrees; the table holds each index of [0, 39) once,
\* and a symbol returned by hitTest is a valid symbol index.
SectorIndices ==
    LET sectors == BuildSectors(dhd)
    IN  /\ Len(sectors) = SYMBOL_COUNT
        /\ \A k \in 1..SYMBOL_COUNT : sectors[k].index = k - 1
        /\ \A k \in 1..OUTER_COUNT :
              /\ sectors[k].outer_radius = dhd.outer_radius
              /\ sectors[k].inner_radius = dhd.outer_ring_inner
        /\ \A k \in (OUTER_COUNT + 1)..SYMBOL_COUNT :
              /\ sectors[k].outer_radius = dhd.inner_ring_outer
              /\ sectors[k].inner_radius = dhd.inner_ring_inner
        /\ sectors[1].start_angle = WholeDeg(0)
        /\ sectors[OUTER_COUNT + 1].start_angle = WholeDeg(15)
        /\ \A k \in (1..(SYMBOL_COUNT - 1)) \ {OUTER_COUNT} :
              DblLess(sectors[k].start_angle, sectors[k + 1].start_angle)
        /\ \A idx \in 0..(SYMBOL_COUNT - 1) :
              Cardinality({ k \in 1..SYMBOL_COUNT : sectors[k].index = idx }) = 1
        /\ hit.kind = "symbol" => ~NoSuchSymbol(hit.index)
        /\ hovered_symbol # None => ~NoSuchSymbol(hovered_symbol)

\* the pointer is over the first inner-ring sector of the smallest wheel
SectorIndicesWitness ==
    /\ dhd = SetGeometry(MIN_OUTER_RADIUS)
    /\ pointer = [angle |-> WholeDeg(15), dist |-> dhd.inner_ring_inner]
    /\ hit = HitResult("symbol", OUTER_COUNT)
    /\ hovered_symbol = OUTER_COUNT


----------------------------------------------------------------------------
(* Properties of the spin *)

\* C25 as stated: in every reachable state ring_speed is at least the base
\* spin speed.  The startup state refutes it: ring_speed is 0.0 until the
\* first step begins, and again after every close().
SpeedAtLeastBase == ring_speed >= DIAL_SPIN_BASE_SPEED

\* C25 amended: ring_speed is at least the base spin speed in every state but
\* IDLE, and 0 in IDLE.
SpeedAtLeastBaseWhenActive ==
    /\ state # "IDLE" => ring_speed >= DIAL_SPIN_BASE_SPEED
    /\ state = "IDLE" => ring_speed = 0

\* the speed of the last leg stands while the wormhole opens
SpeedAtLeastBaseWhenActiveWitness ==
    /\ state = "OPENING"
    /\ ring_speed = StepSpeed(MIN_ADDRESS_LENGTH - 1)
    /\ ring_speed > DIAL_SPIN_BASE_SPEED

\* the largest speed of any step: base speed plus the cap
TopSpeed == DIAL_SPIN_BASE_SPEED + DIAL_SPIN_SPEED_CAP

\* C26: the spin speed of step i is BASE + min(CAP, i * INCREMENT): it is
\* 220 at step 0, non-decreasing in the step index, and never above 330 for
\* any step of an address of up to 9 symbols.
SpeedSchedule ==
    [][ BeginsStep =>
          /\ (dial_step_index' * DIAL_SPIN_SPEED_STEP <= DIAL_SPIN_SPEED_CAP
                => ring_speed' = DIAL_SPIN_BASE_SPEED
                                    + dial_step_index' * DIAL_SPIN_SPEED_STEP)
          /\ (dial_step_index' * DIAL_SPIN_SPEED_STEP > DIAL_SPIN_SPEED_CAP
                => ring_speed' = TopSpeed)
          /\ dial_step_index' = 0 => ring_speed' = DIAL_SPIN_BASE_SPEED
          /\ dial_step_index' > 0 => ring_speed' >= ring_speed
          /\ ring_speed' <= TopSpeed
          /\ \A i \in 0..(MAX_ADDRESS_LENGTH - 2) : StepSpeed(i) <= StepSpeed(i + 1)
      ]_vars

\* the last step of a 9-symbol address spins at the capped speed
SpeedScheduleWitness ==
    /\ dial_phase = "SPINNING"
    /\ dial_step_index = MAX_ADDRESS_LENGTH - 1
    /\ cues = << "lock" >>
    /\ ring_speed = TopSpeed
    /\ ring_speed < StepSpeed_NoCap(dial_step_index)


----------------------------------------------------------------------------
(* Properties of the deadlines *)

\* C27: in every episode, also one started after an earlier episode was
\* closed, a lock fires only when the clock has reached the deadline set on
\* entering CHEVRON_ACTUATE (entry time + 380 ms), and CONNECTED is entered
\* only when the clock has reached the open deadline (time of the final lock
\* + 1100 ms); a deadline of an earlier episode causes neither earlier.
DeadlinesRespected ==
    [][ /\ (dial_phase # "CHEVRON_ACTUATE" /\ dial_phase' = "CHEVRON_ACTUATE") =>
              /\ chevron_phase_started_at' = ticks'
              /\ top_chevron_anim_until' = ticks' + CHEVRON_ACTUATE_MS
        /\ (dial_phase = "CHEVRON_ACTUATE" /\ dial_phase' = "CHEVRON_ACTUATE") =>
              UNCHANGED << chevron_phase_started_at, top_chevron_anim_until >>
        /\ locked_count' > locked_count =>
              /\ dial_phase = "CHEVRON_ACTUATE"
              /\ top_chevron_anim_until = chevron_phase_started_at + CHEVRON_ACTUATE_MS
              /\ ticks' >= top_chevron_anim_until
        /\ (state # "OPENING" /\ state' = "OPENING") =>
              /\ locked_count' = locked_count + 1
              /\ open_finish_at' = ticks' + OPEN_DURATION_MS
        /\ (state = "OPENING" /\ state' = "OPENING") => UNCHANGED open_finish_at
        /\ (state # "CONNECTED" /\ state' = "CONNECTED") =>
              /\ state = "OPENING"
              /\ ticks' >= open_finish_at
      ]_vars

\* the gate opens again, with the open deadline and the connection time of
\* an earlier episode behind it
DeadlinesRespectedWitness ==
    /\ state = "OPENING"
    /\ cues = << >>
    /\ connected_since > 0
    /\ connected_since < open_finish_at - OPEN_DURATION_MS
    /\ ticks < open_finish_at


----------------------------------------------------------------------------
(* Properties of the targeting *)

\* the exact stop angle of glyph k: TOP_CHEVRON_ANGLE_DEG - k * SYMBOL_ARC_DEG
StopAngle(k) == TOP_CHEVRON_ANGLE_DEG - k * SYMBOL_ARC_DEG

\* C28, as stated: when step i begins, the target is a stop at
\* TOP_ANGLE - i * SYMBOL_ARC, i being the index of the step.
StopAngleByStepIndex ==
    [][ BeginsStep =>
          (ring_target_angle' - StopAngle(dial_step_index')) % FULL_TURN = 0
      ]_vars

\* C28, amended: when step i begins, the desired stop angle is
\* TOP_ANGLE - current[i] * SYMBOL_ARC, the angle of the glyph whose number is
\* the symbol of the step; the target is a stop at that angle, whatever the
\* index of the step.
StopAngleBySymbolValue ==
    [][ BeginsStep =>
          LET symbol == current_address'[dial_step_index' + 1]
          IN  /\ SymbolAlignmentAngle(symbol).t = StopAngle(symbol)
              /\ (ring_target_angle' - StopAngle(symbol)) % FULL_TURN = 0
      ]_vars

\* a leg has begun for a symbol that is not the index of its step, and it
\* stops at the angle of the symbol, not at that of the index
StopAngleBySymbolValueWitness ==
    /\ dial_phase = "SPINNING"
    /\ cues = << "lock" >>
    /\ current_address[dial_step_index + 1] # dial_step_index
    /\ (ring_target_angle - StopAngle(current_address[dial_step_index + 1])) % FULL_TURN = 0
    /\ (ring_target_angle - StopAngle(dial_step_index)) % FULL_TURN # 0


\* the travel of the leg that begins in this step, as the exact difference of
\* the doubles ring_target_angle and ring_angle
LegTravel == Ang(ring_target_angle' - ring_angle', ring_target_err' - ring_target_err)

\* a double is below `limit` model units
AngBelow(x, limit) == x.t < limit \/ (x.t = limit /\ x.e < 0)

\* C29: when a step begins, the target is
\* ring_angle + ((desired - ring_angle) mod 360) + 360 on a clockwise step and
\* ring_angle - ((ring_angle - desired) mod 360) - 360 on a counter-clockwise
\* step; it is congruent to the desired stop angle modulo 360 and the travel
\* magnitude is at least 360 and below 720 degrees.
TargetFormula ==
    [][ BeginsStep =>
          LET desired == StopAngle(current_address'[dial_step_index' + 1])
              travel == IF StepDirection(dial_step_index') > 0
                        THEN LegTravel ELSE AngNeg(LegTravel)
          IN  /\ StepDirection(dial_step_index') > 0 =>
                   ring_target_angle' =
                       ring_angle' + ((desired - ring_angle') % FULL_TURN) + Deg(360)
              /\ StepDirection(dial_step_index') < 0 =>
                   ring_target_angle' =
                       ring_angle' - ((ring_angle' - desired) % FULL_TURN) - Deg(360)
              /\ (ring_target_angle' - desired) % FULL_TURN = 0
              /\ ~ AngBelow(travel, Deg(360))
              /\ AngBelow(travel, Deg(720))
      ]_vars


----------------------------------------------------------------------------
(* Properties of the spin leg *)

\* a frame of _update runs while the ring spins
SpinFrame == dial_phase = "SPINNING" /\ ticks' # ticks

\* C30: a frame of a spinning leg either moves ring_angle by exactly
\* ring_speed * dt toward the target and neither reaches nor passes it, or,
\* when the remaining distance is at most ring_speed * dt, sets ring_angle to
\* the target and enters CHEVRON_ACTUATE; ring_angle moves in the direction
\* of the leg, never beyond the target, and is never reduced modulo 360.
SpinAdvances ==
    [][ SpinFrame =>
          LET remaining == ring_target_angle - ring_angle
              max_step == MaxStep(ring_speed, ticks' - ticks)
          IN  /\ ring_target_angle' = ring_target_angle
              /\ Abs(remaining) <= max_step =>
                   /\ ring_angle' = ring_target_angle
                   /\ dial_phase' = "CHEVRON_ACTUATE"
              /\ Abs(remaining) > max_step =>
                   /\ dial_phase' = "SPINNING"
                   /\ remaining > 0 => ring_angle' = ring_angle + max_step
                   /\ remaining < 0 => ring_angle' = ring_angle - max_step
                   /\ ring_angle' # ring_target_angle
                   /\ (ring_target_angle - ring_angle' > 0) = (remaining > 0)
              /\ remaining > 0 => ring_angle < ring_angle' /\ ring_angle' <= ring_target_angle
              /\ remaining < 0 => ring_angle > ring_angle' /\ ring_angle' >= ring_target_angle
      ]_vars

\* in the middle of a clockwise leg the ring angle has gone beyond one turn
SpinAdvancesWitness ==
    /\ dial_phase = "SPINNING"
    /\ cues = << >>
    /\ ring_angle > FULL_TURN
    /\ ring_angle < ring_target_angle


----------------------------------------------------------------------------
(* Properties of the sub-phase and of the reset *)

\* C31: the sub-phase is SPINNING or CHEVRON_ACTUATE exactly when the state
\* is DIALING; in IDLE, OPENING and CONNECTED it is IDLE, and no reachable
\* state is DIALING with the sub-phase IDLE.
PhaseFollowsState ==
    /\ state \in {"IDLE", "DIALING", "OPENING", "CONNECTED"}
    /\ dial_phase \in {"IDLE", "SPINNING", "CHEVRON_ACTUATE"}
    /\ (state = "DIALING") <=> (dial_phase \in {"SPINNING", "CHEVRON_ACTUATE"})
    /\ (state # "DIALING") <=> (dial_phase = "IDLE")

\* the last chevron has just locked: the gate opens and the sub-phase is IDLE
PhaseFollowsStateWitness ==
    /\ state = "OPENING"
    /\ dial_phase = "IDLE"
    /\ cues = << "lock", "stop_loop", "kawoosh" >>
    /\ locked_count = Len(current_address)


\* C32: whenever the state is IDLE, at startup and after every close(), the
\* ring and the step bookkeeping hold their initial values: ring_angle = 0,
\* ring_target_angle = 0 (the double 0.0), ring_speed = 0 as at startup,
\* dial_step_index = 0 and sub-phase IDLE.
IdleIsReset ==
    state = "IDLE" =>
        /\ ring_angle = 0
        /\ ring_target_angle = 0
        /\ ring_target_err = 0
        /\ ring_speed = 0
        /\ dial_step_index = 0
        /\ dial_phase = "IDLE"

\* the gate has been closed after the ring had turned and the gate had opened
IdleIsResetWitness ==
    /\ state = "IDLE"
    /\ JustClosed
    /\ open_finish_at > 0
    /\ ring_angle = 0
    /\ dial_step_index = 0


----------------------------------------------------------------------------
(* Properties of the audio cues *)

\* the cue `cue` is emitted in this step
Emits(cue) == cues' # << >> /\ cue \in Range(cues')

\* C33: the ring loop is started by every successful start() and stopped on
\* the transition to OPENING and on every close() from a state other than
\* IDLE, so it plays exactly while the state is DIALING.  Within an episode
\* the cues come in the order engage, loop start, one lock per symbol, loop
\* stop with kawoosh, connected: engage and the loop start only on
\* IDLE -> DIALING, a lock only with locked_count + 1 in DIALING, kawoosh only
\* with the last lock on DIALING -> OPENING, connected only on
\* OPENING -> CONNECTED, and no state of an episode is entered twice.
CueProtocol ==
    [][ /\ loop_active <=> state = "DIALING"
        /\ loop_active' <=> state' = "DIALING"
        /\ (state = "IDLE" /\ state' = "DIALING") <=> Emits("engage")
        /\ Emits("engage") <=> cues' = << "engage", "start_loop" >>
        /\ Emits("start_loop") <=> Emits("engage")
        /\ Emits("lock") <=> locked_count' = locked_count + 1
        /\ Emits("lock") => state = "DIALING" /\ cues'[1] = "lock"
        /\ (state = "DIALING" /\ state' = "OPENING") <=> Emits("kawoosh")
        /\ Emits("kawoosh") =>
              /\ cues' = << "lock", "stop_loop", "kawoosh" >>
              /\ locked_count' = Len(current_address)
        /\ (state = "OPENING" /\ state' = "CONNECTED") <=> Emits("connected")
        /\ Emits("connected") => cues' = << "connected" >>
        /\ (state # "IDLE" /\ state' = "IDLE") <=> Emits("close")
        /\ Emits("close") => cues' = << "stop_loop", "close" >>
        /\ Emits("stop_loop") <=> (Emits("kawoosh") \/ Emits("close"))
        /\ state = "DIALING" => state' \in {"DIALING", "OPENING", "IDLE"}
        /\ state = "OPENING" => state' \in {"OPENING", "CONNECTED", "IDLE"}
        /\ state = "CONNECTED" => state' \in {"CONNECTED", "IDLE"}
      ]_vars

\* the connected cue ends the cues of an episode of nine symbols
CueProtocolWitness ==
    /\ state = "CONNECTED"
    /\ cues = << "connected" >>
    /\ ~ loop_active
    /\ locked_count = MAX_ADDRESS_LENGTH


----------------------------------------------------------------------------
(* Properties of the radius bands *)

\* the zones of the wheel that the distance `dist` lies in
ZonesAt(w, dist) ==
    LET sectors == BuildSectors(w)
    IN  (IF dist <= w.center_button_radius THEN {"center"} ELSE {})
        \cup { IF sectors[k].index < OUTER_COUNT THEN "outer" ELSE "inner" :
                 k \in { j \in DOMAIN sectors :
                           /\ sectors[j].inner_radius <= dist
                           /\ dist <= sectors[j].outer_radius } }

\* C34: for every outer radius the layout accepts (at least 170 after the
\* clamp) the integer radii satisfy center_button_radius < inner_ring_inner
\* <= inner_ring_outer < outer_ring_inner <= outer_radius, so no distance lies
\* in two of the centre zone, the inner ring band and the outer ring band.
BandsDisjoint ==
    /\ dhd.outer_radius >= MIN_OUTER_RADIUS
    /\ 0 < dhd.center_button_radius
    /\ dhd.center_button_radius < dhd.inner_ring_inner
    /\ dhd.inner_ring_inner <= dhd.inner_ring_outer
    /\ dhd.inner_ring_outer < dhd.outer_ring_inner
    /\ dhd.outer_ring_inner <= dhd.outer_radius
    /\ \A dist \in 0..(dhd.outer_radius + 1) : Cardinality(ZonesAt(dhd, dist)) <= 1

\* the window has been resized to a radius whose 69% the double product
\* rounds below the whole number 207
BandsDisjointWitness ==
    /\ dhd.outer_radius = 300
    /\ dhd.outer_ring_inner = 206
    /\ ZonesAt(dhd, dhd.outer_ring_inner) = {"outer"}
    /\ ZonesAt(dhd, dhd.inner_ring_outer) = {"inner"}
    /\ ZonesAt(dhd, dhd.center_button_radius) = {"center"}


----------------------------------------------------------------------------
(* Properties of the step in progress *)

\* C35: while the state is DIALING, dial_step_index equals locked_count and
\* is an index into current_address; the step that is spun or actuated is the
\* one of the next symbol to lock.
StepIsNextUnlocked ==
    state = "DIALING" =>
        /\ dial_step_index = locked_count
        /\ 0 <= dial_step_index
        /\ dial_step_index < Len(current_address)

\* the last symbol of the address is actuated, the others are locked
StepIsNextUnlockedWitness ==
    /\ state = "DIALING"
    /\ dial_phase = "CHEVRON_ACTUATE"
    /\ locked_count = Len(current_address) - 1
    /\ dial_step_index = locked_count


\* the rounding errors of the doubles of a leg stay below 2^-40 degree
RoundingSlack == 13 * 2^11

\* the ring rests on its target, which is the alignment angle of the symbol
\* of the step plus whole turns (as doubles: up to the rounding of the target)
RingAligned ==
    LET symbol == current_address[dial_step_index + 1]
    IN  /\ ring_angle = ring_target_angle
        /\ (ring_angle - StopAngle(symbol)) % FULL_TURN = 0
        /\ Abs(ring_target_err - SymbolAlignmentAngle(symbol).e) < RoundingSlack

\* C36: whenever the sub-phase is CHEVRON_ACTUATE, ring_angle equals
\* ring_target_angle and is congruent modulo 360 to the alignment angle
\* TOP_ANGLE - current[dial_step_index] * SYMBOL_ARC of the symbol being
\* locked; a lock is counted only from such a state.
LocksAreAligned ==
    [][ /\ dial_phase' = "CHEVRON_ACTUATE" => RingAligned'
        /\ locked_count' = locked_count + 1 =>
              dial_phase = "CHEVRON_ACTUATE" /\ RingAligned
      ]_vars

\* a chevron actuates with the ring more than a turn from the alignment
\* angle of its symbol, on a target that carries a rounding error
LocksAreAlignedWitness ==
    /\ dial_phase = "CHEVRON_ACTUATE"
    /\ dial_step_index > 0
    /\ RingAligned
    /\ ring_target_err # 0
    /\ Abs(ring_angle - StopAngle(current_address[dial_step_index + 1])) > FULL_TURN


----------------------------------------------------------------------------
(* Properties of the episodes *)

RECURSIVE LegTarget(_, _)
\* the target of step `step` of an episode that dials `addr` with the ring
\* at 0.0 when it starts: a function of the address alone
LegTarget(addr, step) ==
    The({ StepTarget(step, addr[step + 1], from) :
            from \in {IF step = 0 THEN Ang(0, 0) ELSE LegTarget(addr, step - 1)} })

\* the addresses that the episodes dial
DialedAddresses == { KNOWN_ADDRESSES[name] : name \in PresetChoices }

\* the targets of the legs of each address, computed once
EpisodeTargets ==
    [addr \in DialedAddresses |->
        [k \in 1..Len(addr) |-> LegTarget(addr, k - 1)] \o << >>] @@ << >>

\* C37: every episode begins with ring_angle = 0, and the target, the
\* direction and the speed of each of its legs are those that the address
\* alone determines, whatever was dialed or closed before: two episodes with
\* the same entered sequence have the same targets, directions and speeds.
EpisodesRepeat ==
    [][ /\ (state = "IDLE" /\ state' = "DIALING") =>
              /\ ring_angle = 0
              /\ ring_target_err = 0
              /\ ring_angle' = 0
              /\ current_address' = entered_symbols
        /\ BeginsStep =>
              LET target == EpisodeTargets[current_address'][dial_step_index' + 1]
              IN  /\ ring_target_angle' = target.t
                  /\ ring_target_err' = target.e
                  /\ ring_speed' = StepSpeed(dial_step_index')
                  /\ (ring_target_angle' > ring_angle')
                         = (StepDirection(dial_step_index') > 0)
      ]_vars

\* a later episode, started after the gate had opened and was closed, begins
\* its third leg on the target that the address determines
EpisodesRepeatWitness ==
    /\ state = "DIALING"
    /\ dial_phase = "SPINNING"
    /\ cues = << "lock" >>
    /\ dial_step_index = 2
    /\ open_finish_at > 0
    /\ ticks > open_finish_at
    /\ ring_target_angle = EpisodeTargets[current_address][dial_step_index + 1].t

====
